---- MODULE Spec2Model ----
(***************************************************************************)
(* Merger-tree construction of shark (src/src/tree_builder.cpp).           *)
(*                                                                         *)
(* A catalogue of halos and subhalos is turned into a forest by            *)
(* TreeBuilder::build_trees: root seeding, HaloBasedTreeBuilder::          *)
(* loop_through_halos (the Linker, which calls TreeBuilder::link), the     *)
(* self-containment check, the optional mass-growth pass, the central      *)
(* subhalo resolution and the accretion bookkeeping.  Every pass is one    *)
(* action; the passes are operators over a record "w" holding the objects  *)
(* the C++ code mutates in place.                                          *)
(***************************************************************************)
EXTENDS Integers, Sequences, FiniteSets, TLC

\* ---------------------------------------------------------------- bounds
NumHalos == 3
NumSubhalos == 3
MaxSnapshot == 2
MaxMvir == 2
MaxBaryonFraction == 2
MaxLinkCalls == 2

\* ------------------------------------------------------------- constants
\* an empty shared_ptr / weak_ptr
None == 0

Snapshots == 0..MaxSnapshot
\* SimulationParameters: the snapshot range walked by the passes
sim_params == [min_snapshot |-> 0, max_snapshot |-> MaxSnapshot]
\* identifiers that belong to no halo / no subhalo of the catalogue
MissingHaloId == NumHalos + 1
MissingSubhaloId == NumSubhalos + 1

SATELLITE == "SATELLITE"
CENTRAL == "CENTRAL"

VARIABLES
    halos,                 \* halo index -> Halo object
    subhalos,              \* subhalo index -> Subhalo object
    trees,                 \* sequence of MergerTree::halos maps (tree id = position - 1)
    halos_by_id,           \* keys of the Linker's identity index
    linker,                \* position of the Linker's loops
    linked_snapshots,      \* "Linking Halos/Subhalos at snapshot" log lines
    warnings,              \* number of LOG(warning) lines of the Linker
    baryon_total_created,  \* TotalBaryon::baryon_total_created
    exec_params,           \* ExecutionParameters + cosmology scalar
    catalogue_Mvir,        \* Mvir of every halo as read from the catalogue
    catalogue_main_progenitor, \* main-progenitor flag of every subhalo as read
    workers,               \* per tree: the halos its worker has still to visit
                           \* in the running pass, and what it has written
    pass_start,            \* the halos and subhalos when the running pass began
    err,                   \* exception that ended the run, if any
    passes,                \* passes of build_trees executed so far
    pc                     \* position inside build_trees / the driver

vars == <<halos, subhalos, trees, halos_by_id, linker, linked_snapshots, warnings,
          baryon_total_created, exec_params, catalogue_Mvir,
          catalogue_main_progenitor, workers, pass_start, err, passes, pc>>

\* -------------------------------------------------------------- helpers
NoError == [kind |-> "none", what |-> "none", id |-> 0]

Throw(w, kind, what, id) ==
    [w EXCEPT !.err = [kind |-> kind, what |-> what, id |-> id]]

Failed(w) == w.err.kind # "none"

RECURSIVE SeqSum(_)
SeqSum(s) == IF s = <<>> THEN 0 ELSE Head(s) + SeqSum(Tail(s))

RECURSIVE SetSum(_, _)
SetSum(S, f) ==
    IF S = {} THEN 0
    ELSE LET x == CHOOSE y \in S : TRUE IN f[x] + SetSum(S \ {x}, f)

SeqRange(s) == {s[i] : i \in 1..Len(s)}

Count(s, x) == Cardinality({i \in 1..Len(s) : s[i] = x})

\* std::find + erase of the first occurrence
RemoveFirst(s, x) ==
    IF \E i \in 1..Len(s) : s[i] = x
    THEN LET i == CHOOSE j \in 1..Len(s) : s[j] = x /\ \A k \in 1..(j-1) : s[k] # x
         IN SubSeq(s, 1, i-1) \o SubSeq(s, i+1, Len(s))
    ELSE s

\* a set of integers as a sequence in descending order
RECURSIVE Descending(_)
Descending(S) ==
    IF S = {} THEN <<>>
    ELSE LET m == CHOOSE x \in S : \A y \in S : y <= x
         IN <<m>> \o Descending(S \ {m})

\* --------------------------------------------------- Halo / MergerTree
\* Halo::all_subhalos: the central subhalo (if any) followed by the satellites
all_subhalos(h) ==
    IF h.central_subhalo # None
    THEN <<h.central_subhalo>> \o h.satellite_subhalos
    ELSE h.satellite_subhalos

\* Halo::remove_subhalo: revoke central or satellite membership
remove_subhalo(h, s) ==
    IF h.central_subhalo = s
    THEN [h EXCEPT !.central_subhalo = None]
    ELSE [h EXCEPT !.satellite_subhalos = RemoveFirst(@, s)]

\* MergerTree::add_halo: append to the bucket of the halo's snapshot
add_halo(ts, t, h, snapshot) ==
    [ts EXCEPT ![t][snapshot] = Append(@, h)]

EmptyTree == [s \in Snapshots |-> <<>>]

\* ------------------------------------------------------ TreeBuilder::link
\* variant: the descendant of the parent subhalo is not looked at
SubhaloHasDescendant_Unchecked(shs, parent_shalo) == FALSE

\* line 151: the parent subhalo already has a descendant
SubhaloHasDescendant(shs, parent_shalo) ==
    shs[parent_shalo].descendant # None

\* variant: the descendant of the parent halo is not looked at
HaloHasOtherDescendant_Unchecked(hs, parent_halo, desc_halo) == FALSE

\* line 165: the parent halo already has a descendant of another identity
HaloHasOtherDescendant(hs, parent_halo, desc_halo) ==
    /\ hs[parent_halo].descendant # None
    /\ hs[hs[parent_halo].descendant].id # hs[desc_halo].id

\* variant: every insertion is taken to be new
HalosLinked_AlwaysNew(hs, parent_halo, desc_halo) == TRUE

\* lines 161-162: std::set::insert reports whether the element is new
HalosLinked(hs, parent_halo, desc_halo) ==
    parent_halo \notin hs[desc_halo].ascendants

\* variant: the parent halo gets the tree but is not entered in its bucket
AttachToTree_Unbucketed(w, hs, parent_halo, desc_halo, halos_linked) ==
    [w EXCEPT !.halos = [hs EXCEPT ![parent_halo].merger_tree = hs[desc_halo].merger_tree]]

\* lines 179-182: adopt the descendant's tree, enter its bucket if new
AttachToTree(w, hs, parent_halo, desc_halo, halos_linked) ==
    LET h3 == [hs EXCEPT ![parent_halo].merger_tree = hs[desc_halo].merger_tree]
        t  == h3[parent_halo].merger_tree
    IN [w EXCEPT !.halos = h3,
                 !.trees = IF halos_linked
                           THEN add_halo(@, t, parent_halo, h3[parent_halo].snapshot)
                           ELSE @]

link(w, parent_shalo, desc_subhalo, parent_halo, desc_halo) ==
    LET s1 == [w.subhalos EXCEPT ![desc_subhalo].ascendants = Append(@, parent_shalo)]
        w1 == [w EXCEPT !.subhalos = s1]
    IN
    IF SubhaloHasDescendant(s1, parent_shalo)
    THEN Throw(w1, "InvalidData", "subhalo already has a descendant", parent_shalo)
    ELSE
    LET s2 == [s1 EXCEPT ![parent_shalo].descendant = desc_subhalo]
        halos_linked == HalosLinked(w.halos, parent_halo, desc_halo)
        h1 == [w.halos EXCEPT ![desc_halo].ascendants = @ \cup {parent_halo}]
        w2 == [w1 EXCEPT !.subhalos = s2, !.halos = h1]
    IN
    IF HaloHasOtherDescendant(h1, parent_halo, desc_halo)
    THEN Throw(w2, "InvalidData", "halo already has a descendant", parent_halo)
    ELSE
    LET h2 == [h1 EXCEPT ![parent_halo].descendant = desc_halo]
        w3 == [w2 EXCEPT !.halos = h2]
    IN
    IF h2[desc_halo].merger_tree = None
    THEN Throw(w3, "InvalidData", "descendant has no MergerTree", desc_halo)
    ELSE AttachToTree(w3, h2, parent_halo, desc_halo, halos_linked)

\* ------------------------------------------------ the state as one record
World ==
    [halos |-> halos, subhalos |-> subhalos, trees |-> trees,
     halos_by_id |-> halos_by_id, linker |-> linker, linked_snapshots |-> linked_snapshots,
     warnings |-> warnings, baryon_total_created |-> baryon_total_created,
     err |-> err]

HaloIds(w) == DOMAIN w.halos

\* the halos of the input vector, in input order, as a sequence
RECURSIVE HaloList(_, _)
HaloList(w, i) ==
    IF i > Len(w.halos) THEN <<>> ELSE <<i>> \o HaloList(w, i + 1)

\* variant: halos after last_snapshot_to_consider are seeded as roots too
RECURSIVE SeedRoots_AtOrAfter(_, _, _)
SeedRoots_AtOrAfter(w, hs, last_snapshot_to_consider) ==
    IF hs = <<>> THEN w
    ELSE LET halo == Head(hs)
         IN IF w.halos[halo].snapshot >= last_snapshot_to_consider
            THEN LET t  == Len(w.trees) + 1
                     w1 == [w EXCEPT !.halos[halo].merger_tree = t,
                                     !.trees = Append(@, EmptyTree)]
                     w2 == [w1 EXCEPT !.trees =
                               add_halo(@, t, halo, w1.halos[halo].snapshot)]
                 IN SeedRoots_AtOrAfter(w2, Tail(hs), last_snapshot_to_consider)
            ELSE SeedRoots_AtOrAfter(w, Tail(hs), last_snapshot_to_consider)

\* ------------------------------- TreeBuilder::build_trees, root seeding
\* lines 85-93: one tree per halo at last_snapshot_to_consider, input order
RECURSIVE SeedRoots(_, _, _)
SeedRoots(w, hs, last_snapshot_to_consider) ==
    IF hs = <<>> THEN w
    ELSE LET halo == Head(hs)
         IN IF w.halos[halo].snapshot = last_snapshot_to_consider
            THEN LET t  == Len(w.trees) + 1
                     w1 == [w EXCEPT !.halos[halo].merger_tree = t,
                                     !.trees = Append(@, EmptyTree)]
                     w2 == [w1 EXCEPT !.trees =
                               add_halo(@, t, halo, w1.halos[halo].snapshot)]
                 IN SeedRoots(w2, Tail(hs), last_snapshot_to_consider)
            ELSE SeedRoots(w, Tail(hs), last_snapshot_to_consider)

\* variant: an empty forest is handed on to the Linker
seed_trees_Unchecked(w, params) ==
    SeedRoots(w, HaloList(w, 1), params.last_snapshot_to_consider)

\* lines 79-114
seed_trees(w, params) ==
    LET w1 == SeedRoots(w, HaloList(w, 1), params.last_snapshot_to_consider)
    IN IF w1.trees = <<>>
       THEN Throw(w1, "InvalidData", "no halos at snapshot",
                  params.last_snapshot_to_consider)
       ELSE w1

\* --------------------------- HaloBasedTreeBuilder::loop_through_halos
\* lines 469-476: all halo snapshots in decreasing order, the first skipped
sorted_halo_snapshots(w) ==
    Tail(Descending({w.halos[h].snapshot : h \in HaloIds(w)}))

\* lines 448-453: the halos of one snapshot in input order
RECURSIVE halos_by_snapshot(_, _, _)
halos_by_snapshot(w, snapshot, i) ==
    IF i > Len(w.halos) THEN <<>>
    ELSE (IF w.halos[i].snapshot = snapshot THEN <<i>> ELSE <<>>)
         \o halos_by_snapshot(w, snapshot, i + 1)

\* lines 517-518: first subhalo of the descendant halo with the claimed id
FindDescendantSubhalo(w, d_halo, descendant_id) ==
    LET subs == all_subhalos(w.halos[d_halo])
        hits == {i \in 1..Len(subs) : w.subhalos[subs[i]].id = descendant_id}
    IN IF hits = {} THEN None
       ELSE subs[CHOOSE i \in hits : \A j \in hits : i <= j]

\* variant: any later snapshot is accepted
NotDirectDescendant_AnyLater(w, subhalo, d_subhalo) ==
    w.subhalos[subhalo].snapshot >= w.subhalos[d_subhalo].snapshot

\* line 522: only direct parentage is supported
NotDirectDescendant(w, subhalo, d_subhalo) ==
    w.subhalos[subhalo].snapshot # w.subhalos[d_subhalo].snapshot - 1

\* variant: the warning switch also turns the error off (cf. line 539)
MissingDescendantIsError_UnlessWarned(params) ==
    ~(params.skip_missing_descendants \/ params.warn_on_missing_descendants)

\* line 551: a missing descendant subhalo is an error unless skipping is on
MissingDescendantIsError(params) ==
    ~params.skip_missing_descendants

\* lines 555-558: optional warning, then the subhalo is removed from its halo
SkipMissingDescendant(w, params, halo, subhalo) ==
    [w EXCEPT !.warnings = IF params.warn_on_missing_descendants THEN @ + 1 ELSE @,
              !.halos[halo] = remove_subhalo(@, subhalo)]

\* The Linker's position: the snapshots and halos still to visit, the halo
\* being processed, the rest of the copy of its subhalo list, and halo_linked
Idle ==
    [snapshots |-> <<>>, halos |-> <<>>, halo |-> None, subhalos |-> <<>>,
     halo_linked |-> FALSE]

\* lines 562-571: a halo none of whose subhalos was linked leaves the index
FinishHalo(w) ==
    [w EXCEPT !.halos_by_id = IF ~w.linker.halo_linked
                              THEN @ \ {w.halos[w.linker.halo].id}
                              ELSE @,
              !.linker.halo = None]

\* lines 480-488 and 562-585: the loop bookkeeping between two subhalos
RECURSIVE Advance(_)
Advance(w) ==
    LET lk == w.linker
    IN
    IF lk.subhalos # <<>> THEN w
    ELSE IF lk.halo # None THEN Advance(FinishHalo(w))
    ELSE IF lk.halos # <<>>
    THEN Advance([w EXCEPT !.linker.halo = Head(lk.halos),
                           !.linker.halos = Tail(lk.halos),
                           !.linker.subhalos = all_subhalos(w.halos[Head(lk.halos)]),
                           !.linker.halo_linked = FALSE])
    ELSE IF lk.snapshots # <<>>
    THEN Advance([w EXCEPT !.linked_snapshots = Append(@, Head(lk.snapshots)),
                           !.linker.snapshots = Tail(lk.snapshots),
                           !.linker.halos = halos_by_snapshot(w, Head(lk.snapshots), 1)])
    ELSE w

\* lines 448-488: build the indices and reach the first subhalo
start_linking(w) ==
    LET w1 == [w EXCEPT !.halos_by_id = {w.halos[h].id : h \in HaloIds(w)}]
    IN Advance([w1 EXCEPT !.linker = [Idle EXCEPT !.snapshots = sorted_halo_snapshots(w1)]])

\* lines 490-497: a subhalo without descendant is removed from its halo
DropSubhalo(w, halo, subhalo) ==
    [w EXCEPT !.halos[halo] = remove_subhalo(@, subhalo),
              !.linker.subhalos = Tail(@)]

\* variant: an unknown descendant halo is treated like an unknown descendant
\* subhalo, an error unless skipping is on
AbandonHalo_AsMissingSubhalo(w, halo) ==
    IF ~exec_params.skip_missing_descendants
    THEN Throw(w, "SubhaloNotFound", "descendant halo not found", halo)
    ELSE [w EXCEPT !.halos_by_id = @ \ {w.halos[halo].id},
                   !.linker.subhalos = <<>>]

\* variant: the halo leaves the index but the loop over its subhalos goes on
AbandonHalo_Continue(w, halo) ==
    [w EXCEPT !.halos_by_id = @ \ {w.halos[halo].id},
              !.linker.subhalos = Tail(@)]

\* lines 501-511: unknown descendant halo, the halo leaves the index and the
\* loop over its subhalos is left
AbandonHalo(w, halo) ==
    [w EXCEPT !.halos_by_id = @ \ {w.halos[halo].id},
              !.linker.subhalos = <<>>]

\* lines 529-532
LinkFound(w, subhalo, d_subhalo, halo, d_halo) ==
    LET w1 == link(w, subhalo, d_subhalo, halo, d_halo)
    IN IF Failed(w1) THEN w1
       ELSE [w1 EXCEPT !.linker.subhalos = Tail(@), !.linker.halo_linked = TRUE]

\* lines 488-560: the body of the loop for the next subhalo of the copy
link_subhalo(w, params) ==
    LET halo == w.linker.halo
        subhalo == Head(w.linker.subhalos)
        sh == w.subhalos[subhalo]
    IN
    IF ~sh.has_descendant THEN DropSubhalo(w, halo, subhalo)
    ELSE IF sh.descendant_halo_id \notin w.halos_by_id THEN AbandonHalo(w, halo)
    ELSE
    LET d_halo == sh.descendant_halo_id
        d_subhalo == FindDescendantSubhalo(w, d_halo, sh.descendant_id)
    IN
    IF d_subhalo # None
    THEN IF NotDirectDescendant(w, subhalo, d_subhalo)
         THEN Throw(w, "InvalidData", "not a direct descendant", subhalo)
         ELSE LinkFound(w, subhalo, d_subhalo, halo, d_halo)
    ELSE IF MissingDescendantIsError(params)
    THEN Throw(w, "SubhaloNotFound", "descendant subhalo not found", sh.descendant_id)
    ELSE [SkipMissingDescendant(w, params, halo, subhalo)
             EXCEPT !.linker.subhalos = Tail(@)]

\* one iteration of the innermost loop and the bookkeeping up to the next one
link_step(w, params) ==
    LET w1 == link_subhalo(w, params)
    IN IF Failed(w1) THEN w1 ELSE Advance(w1)

\* the Linker has run out of snapshots, halos and subhalos
LinkingDone(w) == w.linker.subhalos = <<>>

\* -------------------- TreeBuilder::ensure_trees_are_self_contained
\* line 66: halos of a tree's buckets that point to another tree
ForeignHalos(w, t) ==
    {h \in HaloIds(w) :
        /\ \E s \in Snapshots : h \in SeqRange(w.trees[t][s])
        /\ w.halos[h].merger_tree # t}

\* lines 57-74
ensure_trees_are_self_contained(w) ==
    IF \E t \in 1..Len(w.trees) : ForeignHalos(w, t) # {}
    THEN LET t == CHOOSE u \in 1..Len(w.trees) : ForeignHalos(w, u) # {}
         IN Throw(w, "InvalidData", "halo is not part of tree",
                  CHOOSE h \in ForeignHalos(w, t) : TRUE)
    ELSE w

\* ------------------------------ TreeBuilder::ensure_halo_mass_growth
\* line 328: the snapshots whose halos are compared with their descendants
MassGrowthSnapshots ==
    {s \in Snapshots : s >= sim_params.min_snapshot /\ s < sim_params.max_snapshot}

\* a set of integers as a sequence in ascending order
RECURSIVE Ascending(_)
Ascending(S) ==
    IF S = {} THEN <<>>
    ELSE LET m == CHOOSE x \in S : \A y \in S : x <= y
         IN <<m>> \o Ascending(S \ {m})

\* lines 332-334: the descendant is raised to the progenitor's mass
RaiseDescendant(hs, halo) ==
    LET d == hs[halo].descendant
    IN IF hs[halo].Mvir > hs[d].Mvir
       THEN [hs EXCEPT ![d].Mvir = hs[halo].Mvir]
       ELSE hs

\* lines 330-335; halo->descendant is dereferenced unchecked
RECURSIVE GrowHalos(_, _)
GrowHalos(w, hs) ==
    IF hs = <<>> \/ Failed(w) THEN w
    ELSE LET halo == Head(hs)
         IN IF w.halos[halo].descendant = None
            THEN Throw(w, "Undefined", "null descendant dereferenced", halo)
            ELSE GrowHalos([w EXCEPT !.halos = RaiseDescendant(@, halo)], Tail(hs))

RECURSIVE GrowSnapshots(_, _, _)
GrowSnapshots(w, t, snaps) ==
    IF snaps = <<>> \/ Failed(w) THEN w
    ELSE GrowSnapshots(GrowHalos(w, w.trees[t][Head(snaps)]), t, Tail(snaps))

\* variant: the snapshots are walked from the latest to the earliest
GrowTree_Descending(w, t) == GrowSnapshots(w, t, Descending(MassGrowthSnapshots))

\* lines 328-336: the work on one tree
GrowTree(w, t) == GrowSnapshots(w, t, Ascending(MassGrowthSnapshots))

RECURSIVE GrowTrees(_, _)
GrowTrees(w, t) ==
    IF t > Len(w.trees) \/ Failed(w) THEN w
    ELSE GrowTrees(GrowTree(w, t), t + 1)

\* lines 317-338
ensure_halo_mass_growth(w) == GrowTrees(w, 1)

\* ------------------------------- TreeBuilder::define_central_subhalo(s)
\* lines 424-436: remove_satellite fails when the subhalo is no satellite
IsSatellite(h, subhalo) == subhalo \in SeqRange(h.satellite_subhalos)

\* lines 189-201: the halo takes over the properties of its central subhalo
AdoptCentral(h, sh, subhalo) ==
    [h EXCEPT !.central_subhalo = subhalo,
              !.position = sh.position,
              !.velocity = sh.velocity,
              !.concentration = sh.concentration,
              !.lambda = sh.lambda,
              !.Vvir = IF @ < sh.Vvir THEN sh.Vvir ELSE @]

\* lines 186-210
define_central_subhalo(w, halo, subhalo) ==
    LET h1 == AdoptCentral(w.halos[halo], w.subhalos[subhalo], subhalo)
        w1 == [w EXCEPT !.halos[halo] = h1]
    IN IF ~IsSatellite(h1, subhalo)
       THEN Throw(w1, "InvalidData", "halo does not have satellite subhalos", halo)
       ELSE [w1 EXCEPT !.halos[halo].satellite_subhalos = RemoveFirst(@, subhalo),
                       !.subhalos[subhalo].subhalo_type = CENTRAL]

\* Subhalo::main: the first ascendant carrying the main-progenitor flag
main(w, subhalo) ==
    LET asc  == w.subhalos[subhalo].ascendants
        hits == {i \in 1..Len(asc) : w.subhalos[asc[i]].main_progenitor}
    IN IF hits = {} THEN None
       ELSE asc[CHOOSE i \in hits : \A j \in hits : i <= j]

\* variant: the last of the most massive ascendants is taken
MostMassive_Last(w, ascendants) ==
    ascendants[CHOOSE i \in 1..Len(ascendants) :
        /\ \A j \in 1..Len(ascendants) :
              w.subhalos[ascendants[j]].Mvir <= w.subhalos[ascendants[i]].Mvir
        /\ \A j \in (i+1)..Len(ascendants) :
              w.subhalos[ascendants[j]].Mvir < w.subhalos[ascendants[i]].Mvir]

\* lines 252-255: std::max_element by Mvir yields the first maximum
MostMassive(w, ascendants) ==
    ascendants[CHOOSE i \in 1..Len(ascendants) :
        /\ \A j \in 1..Len(ascendants) :
              w.subhalos[ascendants[j]].Mvir <= w.subhalos[ascendants[i]].Mvir
        /\ \A j \in 1..(i-1) :
              w.subhalos[ascendants[j]].Mvir < w.subhalos[ascendants[i]].Mvir]

\* lines 272-276: stamp the ascendants that are not flagged main progenitor
RECURSIVE StampAscendants(_, _)
StampAscendants(shs, ascendants) ==
    IF ascendants = <<>> THEN shs
    ELSE LET sub == Head(ascendants)
         IN StampAscendants(
              IF ~shs[sub].main_progenitor
              THEN [shs EXCEPT ![sub].last_snapshot_identified = shs[sub].snapshot]
              ELSE shs,
              Tail(ascendants))

\* lines 245-281: the walk along the main-progenitor branch
RECURSIVE WalkMainBranch(_, _, _)
WalkMainBranch(w, subhalo, ascendants) ==
    IF ascendants = <<>> \/ Failed(w) THEN w
    ELSE
    LET flagged   == main(w, subhalo)
        main_prog == IF flagged # None THEN flagged ELSE MostMassive(w, ascendants)
        w1 == IF flagged # None THEN w
              ELSE [w EXCEPT !.subhalos[main_prog].main_progenitor = TRUE]
        ascendant_halo == w1.subhalos[main_prog].host_halo
    IN
    IF w1.halos[ascendant_halo].central_subhalo # None THEN w1
    ELSE
    LET w2 == define_central_subhalo(w1, ascendant_halo, main_prog)
    IN IF Failed(w2) THEN w2
       ELSE LET w3 == [w2 EXCEPT !.subhalos = StampAscendants(@, ascendants)]
            IN WalkMainBranch(w3, main_prog, w3.subhalos[main_prog].ascendants)

\* variant: a halo that already has a central subhalo is resolved again
RECURSIVE ResolveHalos_Unguarded(_, _)
ResolveHalos_Unguarded(w, hs) ==
    IF hs = <<>> \/ Failed(w) THEN w
    ELSE
    LET halo == Head(hs)
    IN
    IF all_subhalos(w.halos[halo]) = <<>>
    THEN Throw(w, "Undefined", "all_subhalos()[0] of an empty vector", halo)
    ELSE
    LET central_subhalo == all_subhalos(w.halos[halo])[1]
        w1 == define_central_subhalo(w, halo, central_subhalo)
    IN IF Failed(w1) THEN w1
       ELSE ResolveHalos_Unguarded(
              WalkMainBranch(w1, central_subhalo,
                             w1.subhalos[central_subhalo].ascendants),
              Tail(hs))

\* lines 225-282: the halos of one bucket
RECURSIVE ResolveHalos(_, _)
ResolveHalos(w, hs) ==
    IF hs = <<>> \/ Failed(w) THEN w
    ELSE
    LET halo == Head(hs)
    IN
    IF w.halos[halo].central_subhalo # None THEN ResolveHalos(w, Tail(hs))
    ELSE IF all_subhalos(w.halos[halo]) = <<>>
    THEN Throw(w, "Undefined", "all_subhalos()[0] of an empty vector", halo)
    ELSE
    LET central_subhalo == all_subhalos(w.halos[halo])[1]
        w1 == define_central_subhalo(w, halo, central_subhalo)
    IN IF Failed(w1) THEN w1
       ELSE ResolveHalos(
              WalkMainBranch(w1, central_subhalo,
                             w1.subhalos[central_subhalo].ascendants),
              Tail(hs))

\* variant: the buckets are resolved from min_snapshot up to max_snapshot
ResolveSnapshotOrder_Ascending ==
    Ascending({s \in Snapshots :
                 s <= sim_params.max_snapshot /\ s >= sim_params.min_snapshot})

\* line 223: snapshots from max_snapshot down to min_snapshot
ResolveSnapshotOrder ==
    Descending({s \in Snapshots :
                  s <= sim_params.max_snapshot /\ s >= sim_params.min_snapshot})

RECURSIVE ResolveSnapshots(_, _, _)
ResolveSnapshots(w, t, snaps) ==
    IF snaps = <<>> \/ Failed(w) THEN w
    ELSE ResolveSnapshots(ResolveHalos(w, w.trees[t][Head(snaps)]), t, Tail(snaps))

\* lines 220-284: the work on one tree
ResolveTree(w, t) == ResolveSnapshots(w, t, ResolveSnapshotOrder)

RECURSIVE ResolveTrees(_, _)
ResolveTrees(w, t) ==
    IF t > Len(w.trees) \/ Failed(w) THEN w
    ELSE ResolveTrees(ResolveTree(w, t), t + 1)

\* line 293: for(snapshot = min_snapshot; snapshot >= max_snapshot; snapshot++)
\* visits no snapshot when min_snapshot < max_snapshot, and otherwise every
\* snapshot from min_snapshot upwards
CentralCheckSnapshots ==
    {s \in Snapshots : sim_params.min_snapshot >= sim_params.max_snapshot
                       /\ s >= sim_params.min_snapshot}

\* lines 296-306: number of hosted subhalos typed CENTRAL
CentralCount(w, halo) ==
    LET subs == all_subhalos(w.halos[halo])
    IN Cardinality({i \in 1..Len(subs) : w.subhalos[subs[i]].subhalo_type = CENTRAL})

\* lines 295-312: halos of the visited buckets that break the post-condition
BadCentralHalos(w) ==
    {h \in HaloIds(w) :
        /\ \E t \in 1..Len(w.trees) : \E s \in CentralCheckSnapshots :
              h \in SeqRange(w.trees[t][s])
        /\ CentralCount(w, h) # 1}

\* lines 286-314; when the loop is entered at all its counter never stops
check_central_subhalos(w) ==
    IF BadCentralHalos(w) # {}
    THEN LET h == CHOOSE x \in BadCentralHalos(w) : TRUE
         IN Throw(w, "InvalidArgument",
                  IF CentralCount(w, h) = 0 THEN "no central subhalo"
                  ELSE "more than one central subhalo", h)
    ELSE IF sim_params.min_snapshot >= sim_params.max_snapshot
    THEN Throw(w, "Undefined", "snapshot counter overflows", 0)
    ELSE w

\* lines 212-315
define_central_subhalos(w) ==
    LET w1 == ResolveTrees(w, 1)
    IN IF Failed(w1) THEN w1 ELSE check_central_subhalos(w1)

\* --------------------------- TreeBuilder::define_accretion_rate_from_dm
\* lines 388-390: summed Mvir of the halo's ascendant set
Mvir_asc(w, halo) ==
    SetSum(w.halos[halo].ascendants, [h \in HaloIds(w) |-> w.halos[h].Mvir])

\* variant: negative values are kept
AccretedMass_Unfloored(w, halo, universal_baryon_fraction) ==
    (w.halos[halo].Mvir - Mvir_asc(w, halo)) * universal_baryon_fraction

\* lines 393-403: accreted baryonic mass, floored at zero
AccretedMass(w, halo, universal_baryon_fraction) ==
    LET m == (w.halos[halo].Mvir - Mvir_asc(w, halo)) * universal_baryon_fraction
    IN IF m < 0 THEN 0 ELSE m

\* lines 384-404; halo->central_subhalo is dereferenced unchecked
RECURSIVE AccreteHalos(_, _, _)
AccreteHalos(w, hs, fb) ==
    IF hs = <<>> \/ Failed(w) THEN w
    ELSE LET halo == Head(hs)
             c == w.halos[halo].central_subhalo
         IN IF c = None
            THEN Throw(w, "Undefined", "null central subhalo dereferenced", halo)
            ELSE AccreteHalos(
                   [w EXCEPT !.subhalos[c].accreted_mass = AccretedMass(w, halo, fb)],
                   Tail(hs), fb)

RECURSIVE AccreteSnapshots(_, _, _, _)
AccreteSnapshots(w, t, snaps, fb) ==
    IF snaps = <<>> \/ Failed(w) THEN w
    ELSE AccreteSnapshots(AccreteHalos(w, w.trees[t][Head(snaps)], fb),
                          t, Tail(snaps), fb)

RECURSIVE AccreteTrees(_, _, _)
AccreteTrees(w, t, fb) ==
    IF t > Len(w.trees) \/ Failed(w) THEN w
    ELSE AccreteTrees(AccreteSnapshots(w, t, ResolveSnapshotOrder, fb), t + 1, fb)

\* lines 413-415: accreted mass of the halos of one snapshot, all trees
RECURSIVE SnapshotAccretion(_, _, _)
SnapshotAccretion(w, t, snapshot) ==
    IF t > Len(w.trees) THEN 0
    ELSE SeqSum([i \in 1..Len(w.trees[t][snapshot]) |->
                   w.subhalos[w.halos[w.trees[t][snapshot][i]].central_subhalo]
                       .accreted_mass])
         + SnapshotAccretion(w, t + 1, snapshot)

\* variant: the total starts again from zero at every snapshot
RECURSIVE Accumulate_PerSnapshot(_, _, _)
Accumulate_PerSnapshot(w, snapshot, total_baryon_accreted) ==
    IF snapshot > sim_params.max_snapshot THEN w
    ELSE LET total == SnapshotAccretion(w, 1, snapshot)
         IN Accumulate_PerSnapshot([w EXCEPT !.baryon_total_created[snapshot] = total],
                                   snapshot + 1, total)

\* lines 409-419: running total from min_snapshot to max_snapshot
RECURSIVE Accumulate(_, _, _)
Accumulate(w, snapshot, total_baryon_accreted) ==
    IF snapshot > sim_params.max_snapshot THEN w
    ELSE LET total == total_baryon_accreted + SnapshotAccretion(w, 1, snapshot)
         IN Accumulate([w EXCEPT !.baryon_total_created[snapshot] = total],
                       snapshot + 1, total)

\* lines 377-421
define_accretion_rate_from_dm(w, params) ==
    LET w1 == AccreteTrees(w, 1, params.universal_baryon_fraction)
    IN IF Failed(w1) THEN w1 ELSE Accumulate(w1, sim_params.min_snapshot, 0)

\* ------------------------------------------------------- input catalogues
\* The halos of a catalogue are numbered in input order and id = number; the
\* input is taken sorted by snapshot, latest first (a stable sort of the input
\* vector leaves every pass unchanged), and the subhalos are numbered host by
\* host.  Every halo hosts at least one subhalo, all of them satellites.

\* snapshot of each of n halos
SnapshotChoices(n) ==
    {f \in [1..n -> Snapshots] : \A i \in 1..(n-1) : f[i] >= f[i+1]}

\* host halo of each of m subhalos
HostChoices(n, m) ==
    {f \in [1..m -> 1..n] :
        /\ \A i \in 1..(m-1) : f[i] <= f[i+1]
        /\ \A h \in 1..n : \E i \in 1..m : f[i] = h}

NoClaim == [has_descendant |-> FALSE, descendant_halo_id |-> None, descendant_id |-> None]

Claim(dh, ds) == [has_descendant |-> TRUE, descendant_halo_id |-> dh, descendant_id |-> ds]

\* claims naming a subhalo of a halo that precedes the host in the input
ResolvableClaims(shape, k) ==
    {Claim(shape.host[d], d) :
        d \in {x \in DOMAIN shape.host : shape.host[x] < shape.host[k]}}

\* resolvable claims naming a subhalo of the very next snapshot
DirectClaims(shape, k) ==
    {Claim(shape.host[d], d) :
        d \in {x \in DOMAIN shape.host :
                 /\ shape.host[x] < shape.host[k]
                 /\ shape.snap[shape.host[x]] = shape.snap[shape.host[k]] + 1}}

\* claims that cannot be resolved: unknown halo, or unknown subhalo of the
\* halo that precedes the host
DanglingClaims(shape, k) ==
    {Claim(MissingHaloId, MissingSubhaloId)}
    \cup {Claim(dh, MissingSubhaloId) : dh \in {shape.host[k] - 1} \ {0}}

\* the descendant claims of the first k subhalos; direct: only claims that
\* the Linker accepts
RECURSIVE ClaimChoices(_, _, _)
ClaimChoices(shape, k, direct) ==
    IF k = 0 THEN {<<>>}
    ELSE {Append(c, x) :
            c \in ClaimChoices(shape, k - 1, direct),
            x \in {NoClaim}
                  \cup (IF direct THEN DirectClaims(shape, k)
                        ELSE ResolvableClaims(shape, k) \cup DanglingClaims(shape, k))}

RECURSIVE Satellites(_, _, _)
Satellites(host, h, k) ==
    IF k > Len(host) THEN <<>>
    ELSE (IF host[k] = h THEN <<k>> ELSE <<>>) \o Satellites(host, h, k + 1)

NewHalo(h, snapshot, Mvir, host) ==
    [id |-> h, snapshot |-> snapshot, Mvir |-> Mvir, Vvir |-> 1,
     position |-> 0, velocity |-> 0, concentration |-> 0, lambda |-> 0,
     ascendants |-> {}, descendant |-> None, central_subhalo |-> None,
     satellite_subhalos |-> Satellites(host, h, 1), merger_tree |-> None]

NewSubhalo(k, h, snapshot, Mvir, claim, type, flag) ==
    [id |-> k, snapshot |-> snapshot, host_halo |-> h, Mvir |-> Mvir, Vvir |-> k - 1,
     position |-> k, velocity |-> k, concentration |-> k, lambda |-> k,
     has_descendant |-> claim.has_descendant,
     descendant_halo_id |-> claim.descendant_halo_id,
     descendant_id |-> claim.descendant_id,
     ascendants |-> <<>>, descendant |-> None,
     subhalo_type |-> type, main_progenitor |-> flag,
     last_snapshot_identified |-> -1, accreted_mass |-> 0]

Catalogue(snap, host, claim, hmass, smass, type, flag) ==
    [halos    |-> [h \in DOMAIN snap |-> NewHalo(h, snap[h], hmass[h], host)],
     subhalos |-> [k \in DOMAIN host |->
                     NewSubhalo(k, host[k], snap[host[k]], smass[k], claim[k],
                                type[k], flag[k])]]

Sizes == {nm \in (1..NumHalos) \X (1..NumSubhalos) : nm[1] <= nm[2]}

Ones(n) == [i \in 1..n |-> 1]
Untagged(m) == [k \in 1..m |-> SATELLITE]
Unflagged(m) == [k \in 1..m |-> FALSE]

\* the shapes of a catalogue: halo snapshots and the host of every subhalo
Shapes ==
    UNION {{[snap |-> snap, host |-> host] :
              snap \in SnapshotChoices(nm[1]), host \in HostChoices(nm[1], nm[2])} :
           nm \in Sizes}

NumH(shape) == Len(shape.snap)
NumS(shape) == Len(shape.host)

\* the roots are seeded at the last snapshot or at the one before it
RootSnapshots == {MaxSnapshot - 1, MaxSnapshot}

LinkerParams ==
    [last_snapshot_to_consider : RootSnapshots,
     skip_missing_descendants : BOOLEAN,
     warn_on_missing_descendants : BOOLEAN,
     ensure_mass_growth : {FALSE},
     universal_baryon_fraction : {1}]

TaggedParams ==
    [last_snapshot_to_consider : RootSnapshots,
     skip_missing_descendants : {FALSE},
     warn_on_missing_descendants : {FALSE},
     ensure_mass_growth : BOOLEAN,
     universal_baryon_fraction : {1}]

MassParams ==
    [last_snapshot_to_consider : RootSnapshots,
     skip_missing_descendants : {FALSE},
     warn_on_missing_descendants : {FALSE},
     ensure_mass_growth : BOOLEAN,
     universal_baryon_fraction : {1, MaxBaryonFraction}]

UnlinkedParams ==
    [last_snapshot_to_consider : RootSnapshots,
     skip_missing_descendants : {FALSE},
     warn_on_missing_descendants : {FALSE},
     ensure_mass_growth : {FALSE},
     universal_baryon_fraction : {1}]

\* -------------------------------------------------------------- the driver
InitWith(c, params) ==
    /\ halos = c.halos
    /\ subhalos = c.subhalos
    /\ exec_params \in params
    /\ catalogue_Mvir = [h \in DOMAIN c.halos |-> c.halos[h].Mvir]
    /\ catalogue_main_progenitor =
          [k \in DOMAIN c.subhalos |-> c.subhalos[k].main_progenitor]
    /\ workers = <<>>
    /\ pass_start = [halos |-> c.halos, subhalos |-> c.subhalos]
    /\ trees = <<>>
    /\ halos_by_id = {}
    /\ linker = Idle
    /\ linked_snapshots = <<>>
    /\ warnings = 0
    /\ baryon_total_created = [s \in Snapshots |-> 0]
    /\ err = NoError
    /\ passes = <<>>
    /\ pc = "start"

\* the objects after a step, the pass it begins (if any) recorded, and where
\* build_trees goes on
Becomes(w, pass, next) ==
    /\ halos' = w.halos
    /\ subhalos' = w.subhalos
    /\ trees' = w.trees
    /\ halos_by_id' = w.halos_by_id
    /\ linker' = w.linker
    /\ linked_snapshots' = w.linked_snapshots
    /\ warnings' = w.warnings
    /\ baryon_total_created' = w.baryon_total_created
    /\ err' = w.err
    /\ passes' = IF pass = "" THEN passes ELSE Append(passes, pass)
    /\ pc' = IF Failed(w) THEN "failed" ELSE next
    /\ UNCHANGED <<exec_params, catalogue_Mvir, catalogue_main_progenitor,
                   workers, pass_start>>

\* build_trees lines 79-114
SeedTrees ==
    /\ pc = "start"
    /\ Becomes(seed_trees(World, exec_params), "seed", "seeded")

\* build_trees line 116, loop_through_halos lines 448-488
StartLinking ==
    /\ pc = "seeded"
    /\ LET w == start_linking(World)
       IN Becomes(w, "link", IF LinkingDone(w) THEN "linked" ELSE "linking")

\* loop_through_halos lines 488-585, one subhalo
LinkSubhalo ==
    /\ pc = "linking"
    /\ LET w == link_step(World, exec_params)
       IN Becomes(w, "", IF LinkingDone(w) THEN "linked" ELSE "linking")

\* build_trees line 119
EnsureTreesAreSelfContained ==
    /\ pc = "linked"
    /\ Becomes(ensure_trees_are_self_contained(World), "self_contained", "checked")

\* variant: the mass-growth pass runs whatever ensure_mass_growth is
EnsureHaloMassGrowth_Always ==
    /\ pc = "checked"
    /\ Becomes(ensure_halo_mass_growth(World), "mass_growth", "grown")

\* build_trees lines 121-125
EnsureHaloMassGrowth ==
    /\ pc = "checked"
    /\ exec_params.ensure_mass_growth
    /\ Becomes(ensure_halo_mass_growth(World), "mass_growth", "grown")

\* build_trees line 132
DefineCentralSubhalos ==
    /\ \/ pc = "grown"
       \/ pc = "checked" /\ ~exec_params.ensure_mass_growth
    /\ Becomes(define_central_subhalos(World), "central", "resolved")

\* build_trees lines 136-138
DefineAccretionRateFromDm ==
    /\ pc = "resolved"
    /\ Becomes(define_accretion_rate_from_dm(World, exec_params), "accretion", "done")

Next ==
    \/ SeedTrees
    \/ StartLinking
    \/ LinkSubhalo
    \/ EnsureTreesAreSelfContained
    \/ EnsureHaloMassGrowth
    \/ DefineCentralSubhalos
    \/ DefineAccretionRateFromDm

\* catalogues with arbitrary descendant claims, unit masses, no tags
InitLinker ==
    \E shape \in Shapes :
    \E claim \in ClaimChoices(shape, NumS(shape), FALSE) :
        InitWith(Catalogue(shape.snap, shape.host, claim, Ones(NumH(shape)),
                           Ones(NumS(shape)), Untagged(NumS(shape)),
                           Unflagged(NumS(shape))),
                 LinkerParams)

\* catalogues with direct claims whose subhalos arrive with a type tag
InitTagged ==
    \E shape \in Shapes :
    \E claim \in ClaimChoices(shape, NumS(shape), TRUE) :
    \E type \in [1..NumS(shape) -> {SATELLITE, CENTRAL}] :
        InitWith(Catalogue(shape.snap, shape.host, claim, Ones(NumH(shape)),
                           Ones(NumS(shape)), type, Unflagged(NumS(shape))),
                 TaggedParams)

\* catalogues with direct claims and arbitrary halo masses
InitMass ==
    \E shape \in Shapes :
    \E claim \in ClaimChoices(shape, NumS(shape), TRUE) :
    \E hmass \in [1..NumH(shape) -> 1..MaxMvir] :
        InitWith(Catalogue(shape.snap, shape.host, claim, hmass,
                           Ones(NumS(shape)), Untagged(NumS(shape)),
                           Unflagged(NumS(shape))),
                 MassParams)

Init == InitLinker \/ InitTagged \/ InitMass

Spec == Init /\ [][Next]_vars

\* ------------------------------------- link called on its own, repeatedly
\* a caller that hands link a subhalo pair and their host halos (as lines
\* 488, 516-517 and 529 do) and catches what link throws
LinkCall(parent_shalo, desc_subhalo) ==
    /\ pc = "seeded"
    /\ Len(passes) <= MaxLinkCalls
    /\ LET w == link([World EXCEPT !.err = NoError], parent_shalo, desc_subhalo,
                     subhalos[parent_shalo].host_halo,
                     subhalos[desc_subhalo].host_halo)
       IN /\ halos' = w.halos
          /\ subhalos' = w.subhalos
          /\ trees' = w.trees
          /\ err' = w.err
          /\ passes' = Append(passes, "link")
          /\ UNCHANGED <<halos_by_id, linker, linked_snapshots, warnings,
                         baryon_total_created, exec_params, catalogue_Mvir,
                         catalogue_main_progenitor, workers, pass_start, pc>>

LinkCalls == \E p \in DOMAIN subhalos, d \in DOMAIN subhalos : LinkCall(p, d)

\* catalogues without claims
InitLink ==
    \E shape \in Shapes :
        InitWith(Catalogue(shape.snap, shape.host,
                           [k \in 1..NumS(shape) |-> NoClaim], Ones(NumH(shape)),
                           Ones(NumS(shape)), Untagged(NumS(shape)),
                           Unflagged(NumS(shape))),
                 UnlinkedParams)

NextLink == SeedTrees \/ LinkCalls

SpecLink == InitLink /\ [][NextLink]_vars

\* ------------------- the resolver on catalogues with main-progenitor flags
FlaggedParams ==
    [last_snapshot_to_consider : RootSnapshots,
     skip_missing_descendants : {FALSE},
     warn_on_missing_descendants : {FALSE},
     ensure_mass_growth : BOOLEAN,
     universal_baryon_fraction : {1}]

\* subhalo masses; only the mass of a subhalo with a descendant is compared
\* (lines 252-254), the others have unit mass
MassChoices(claim) ==
    {f \in [DOMAIN claim -> 1..MaxMvir] :
        \A k \in DOMAIN claim : ~claim[k].has_descendant => f[k] = 1}

\* main-progenitor flags; only the flag of a subhalo with a descendant is
\* read (line 250), the others carry none
FlagChoices(claim) ==
    {f \in [DOMAIN claim -> BOOLEAN] :
        \A k \in DOMAIN claim : ~claim[k].has_descendant => ~f[k]}

\* catalogues with direct claims, arbitrary subhalo masses and flags
InitFlagged ==
    \E shape \in Shapes :
    \E claim \in ClaimChoices(shape, NumS(shape), TRUE) :
    \E smass \in MassChoices(claim) :
    \E flag \in FlagChoices(claim) :
        InitWith(Catalogue(shape.snap, shape.host, claim, Ones(NumH(shape)),
                           smass, Untagged(NumS(shape)), flag),
                 FlaggedParams)

\* define_central_subhalos (lines 212-315) called once more on the forest
\* that build_trees has returned
DefineCentralSubhalosAgain ==
    /\ pc = "done"
    /\ Count(passes, "central") = 1
    /\ Becomes(define_central_subhalos(World), "central", "done")

NextResolver == Next \/ DefineCentralSubhalosAgain

SpecResolver == InitFlagged /\ [][NextResolver]_vars

\* --------------------- the tree-parallel passes, one worker for every tree
\* (#pragma omp parallel for over the trees, lines 216-220 and 321-325)
NumWorkerHalos == 4

\* variant: the worker of a tree visits the buckets of the next tree
RECURSIVE WorkList_NextTree(_, _, _)
WorkList_NextTree(w, t, snaps) ==
    IF snaps = <<>> THEN <<>>
    ELSE w.trees[(t % Len(w.trees)) + 1][Head(snaps)]
         \o WorkList_NextTree(w, t, Tail(snaps))

\* lines 223-225 and 328-330: the halos of tree t in the order in which the
\* loops over its buckets visit them
RECURSIVE WorkList(_, _, _)
WorkList(w, t, snaps) ==
    IF snaps = <<>> THEN <<>>
    ELSE w.trees[t][Head(snaps)] \o WorkList(w, t, Tail(snaps))

\* lines 332-333: the halos a mass-growth step dereferences
GrowTouches(w, halo) ==
    {halo} \cup ({w.halos[halo].descendant} \ {None})

NoTouch == [halos |-> {}, subhalos |-> {}]

Touch(a, b) == [halos |-> a.halos \cup b.halos, subhalos |-> a.subhalos \cup b.subhalos]

\* lines 245-281: the halos and subhalos the main-branch walk dereferences
RECURSIVE WalkTouches(_, _, _)
WalkTouches(w, subhalo, ascendants) ==
    IF ascendants = <<>> \/ Failed(w) THEN NoTouch
    ELSE
    LET flagged   == main(w, subhalo)
        main_prog == IF flagged # None THEN flagged ELSE MostMassive(w, ascendants)
        w1 == IF flagged # None THEN w
              ELSE [w EXCEPT !.subhalos[main_prog].main_progenitor = TRUE]
        ascendant_halo == w1.subhalos[main_prog].host_halo
        here == [halos |-> {ascendant_halo},
                 subhalos |-> {subhalo} \cup SeqRange(ascendants)]
    IN
    IF w1.halos[ascendant_halo].central_subhalo # None THEN here
    ELSE
    LET w2 == define_central_subhalo(w1, ascendant_halo, main_prog)
    IN IF Failed(w2) THEN here
       ELSE LET w3 == [w2 EXCEPT !.subhalos = StampAscendants(@, ascendants)]
            IN Touch(here, WalkTouches(w3, main_prog, w3.subhalos[main_prog].ascendants))

\* lines 225-281: the halos and subhalos the resolver dereferences for one
\* halo of a bucket
ResolveTouches(w, halo) ==
    IF w.halos[halo].central_subhalo # None \/ all_subhalos(w.halos[halo]) = <<>>
    THEN [halos |-> {halo}, subhalos |-> {}]
    ELSE
    LET central_subhalo == all_subhalos(w.halos[halo])[1]
        here == [halos |-> {halo}, subhalos |-> SeqRange(all_subhalos(w.halos[halo]))]
        w1 == define_central_subhalo(w, halo, central_subhalo)
    IN IF Failed(w1) THEN here
       ELSE Touch(here, WalkTouches(w1, central_subhalo,
                                    w1.subhalos[central_subhalo].ascendants))

\* the trees processed one after another in a given order
RECURSIVE GrowInOrder(_, _)
GrowInOrder(w, order) ==
    IF order = <<>> \/ Failed(w) THEN w
    ELSE GrowInOrder(GrowTree(w, Head(order)), Tail(order))

RECURSIVE ResolveInOrder(_, _)
ResolveInOrder(w, order) ==
    IF order = <<>> \/ Failed(w) THEN w
    ELSE ResolveInOrder(ResolveTree(w, Head(order)), Tail(order))

NewWorker(work) == [work |-> work, halos_written |-> {}, subhalos_written |-> {}]

\* one worker per iteration of the loop over the trees
StartWorkers(w, snaps) ==
    [t \in 1..Len(w.trees) |-> NewWorker(WorkList(w, t, snaps))]

AllDone(ws) == \A t \in DOMAIN ws : ws[t].work = <<>>

\* the objects after worker t has dealt with the next halo of its list; the
\* pass is over when every worker has emptied its list
WorkerBecomes(w, t, next) ==
    /\ halos' = w.halos
    /\ subhalos' = w.subhalos
    /\ err' = w.err
    /\ workers' = [workers EXCEPT
          ![t].work = Tail(@),
          ![t].halos_written =
              @ \cup {h \in DOMAIN halos : w.halos[h] # halos[h]},
          ![t].subhalos_written =
              @ \cup {k \in DOMAIN subhalos : w.subhalos[k] # subhalos[k]}]
    /\ pc' = IF Failed(w) THEN "failed"
             ELSE IF AllDone(workers') THEN next ELSE pc
    /\ UNCHANGED <<trees, halos_by_id, linker, linked_snapshots, warnings,
                   baryon_total_created, exec_params, catalogue_Mvir,
                   catalogue_main_progenitor, pass_start, passes>>

\* a pass begins: its workers get their lists
PassBegins(ws, pass, running, next) ==
    /\ workers' = ws
    /\ pass_start' = [halos |-> halos, subhalos |-> subhalos]
    /\ passes' = Append(passes, pass)
    /\ pc' = IF AllDone(ws) THEN next ELSE running
    /\ UNCHANGED <<halos, subhalos, trees, halos_by_id, linker, linked_snapshots,
                   warnings, baryon_total_created, exec_params, catalogue_Mvir,
                   catalogue_main_progenitor, err>>

\* build_trees lines 121-125, ensure_halo_mass_growth lines 321-328
StartMassGrowth ==
    /\ pc = "checked"
    /\ exec_params.ensure_mass_growth
    /\ PassBegins(StartWorkers(World, Ascending(MassGrowthSnapshots)),
                  "mass_growth", "growing", "grown")

\* lines 330-335, one halo of tree t
GrowWorker(t) ==
    /\ pc = "growing"
    /\ workers[t].work # <<>>
    /\ WorkerBecomes(GrowHalos(World, <<Head(workers[t].work)>>), t, "grown")

GrowWorkers == \E t \in DOMAIN workers : GrowWorker(t)

\* build_trees line 132, define_central_subhalos lines 216-223
StartResolution ==
    /\ \/ pc = "grown"
       \/ pc = "checked" /\ ~exec_params.ensure_mass_growth
    /\ PassBegins(StartWorkers(World, ResolveSnapshotOrder),
                  "central", "resolving", "resolved")

\* lines 225-282, one halo of tree t; the check of lines 286-314 follows the
\* last worker
ResolveWorker(t) ==
    /\ pc = "resolving"
    /\ workers[t].work # <<>>
    /\ LET w1 == ResolveHalos(World, <<Head(workers[t].work)>>)
           last == \A u \in DOMAIN workers :
                      workers[u].work = <<>> \/ (u = t /\ Len(workers[u].work) = 1)
       IN WorkerBecomes(IF last /\ ~Failed(w1) THEN check_central_subhalos(w1) ELSE w1,
                        t, "resolved")

ResolveWorkers == \E t \in DOMAIN workers : ResolveWorker(t)

WorkerParams(ensure_mass_growth) ==
    [last_snapshot_to_consider : RootSnapshots,
     skip_missing_descendants : {FALSE},
     warn_on_missing_descendants : {FALSE},
     ensure_mass_growth : {ensure_mass_growth},
     universal_baryon_fraction : {1}]

\* up to NumWorkerHalos halos, each hosting one subhalo
WorkerShapes ==
    UNION {{[snap |-> snap, host |-> [k \in 1..n |-> k]] : snap \in SnapshotChoices(n)} :
           n \in 1..NumWorkerHalos}

\* catalogues with direct claims, enough halos for two trees with an
\* ascendant each.  With ensure_mass_growth on, every halo has the smallest
\* or the largest mass (line 332 only compares two masses); with it off no
\* pass reads a halo mass before the accretion pass and the masses are equal.
InitWorkers ==
    \E shape \in WorkerShapes :
    \E claim \in ClaimChoices(shape, NumS(shape), TRUE) :
    \E ensure_mass_growth \in BOOLEAN :
    \E hmass \in IF ensure_mass_growth
                 THEN [1..NumH(shape) -> {1, MaxMvir}]
                 ELSE {Ones(NumH(shape))} :
        InitWith(Catalogue(shape.snap, shape.host, claim, hmass,
                           Ones(NumS(shape)), Untagged(NumS(shape)),
                           Unflagged(NumS(shape))),
                 WorkerParams(ensure_mass_growth))

NextWorkers ==
    \/ SeedTrees
    \/ StartLinking
    \/ LinkSubhalo
    \/ EnsureTreesAreSelfContained
    \/ StartMassGrowth
    \/ GrowWorkers
    \/ StartResolution
    \/ ResolveWorkers
    \/ DefineAccretionRateFromDm

SpecWorkers == InitWorkers /\ [][NextWorkers]_vars

\* ================================================================ claims
Hosted(h) ==
    (IF halos[h].central_subhalo # None THEN {halos[h].central_subhalo} ELSE {})
    \cup SeqRange(halos[h].satellite_subhalos)

TreeIds == 1..Len(trees)

Members(t) == UNION {SeqRange(trees[t][s]) : s \in Snapshots}

InForest(h) == \E t \in TreeIds : h \in Members(t)

LinkedSubhalosOf(h) ==
    {k \in DOMAIN subhalos : subhalos[k].host_halo = h /\ subhalos[k].descendant # None}

\* C1: once build_trees has returned, every halo found in a snapshot bucket of
\* a tree refers to that tree, lies in the bucket of its own snapshot, occurs
\* there exactly once, and occurs in no bucket of another tree.
C1_SelfContained ==
    pc = "done" =>
        \A t \in TreeIds : \A s \in Snapshots : \A h \in SeqRange(trees[t][s]) :
            /\ halos[h].merger_tree = t
            /\ halos[h].snapshot = s
            /\ Count(trees[t][s], h) = 1
            /\ \A u \in TreeIds \ {t} : h \notin Members(u)

\* a returned forest with a halo that two subhalo links joined to its tree
C1_Witness ==
    /\ pc = "done"
    /\ \E h \in DOMAIN halos : InForest(h) /\ Cardinality(LinkedSubhalosOf(h)) >= 2

NumCentrals(h) ==
    Cardinality({k \in Hosted(h) : subhalos[k].subhalo_type = CENTRAL})

\* C2: once define_central_subhalos has completed without error, every halo
\* of every tree hosts exactly one subhalo of type CENTRAL.
C2_ExactlyOneCentral ==
    pc \in {"resolved", "done"} =>
        \A h \in DOMAIN halos : InForest(h) => NumCentrals(h) = 1

\* a halo seeded as a root hosts two subhalos tagged CENTRAL
TwoTaggedCentralsAtRoot ==
    \E h \in DOMAIN halos :
        /\ halos[h].snapshot = exec_params.last_snapshot_to_consider
        /\ InForest(h)
        /\ Cardinality({k \in Hosted(h) : subhalos[k].subhalo_type = CENTRAL}) >= 2

ResolverRuns ==
    /\ pc \in {"checked", "grown"}
    /\ pc' # pc

\* C3: when a root halo hosts two subhalos that arrive tagged CENTRAL,
\* define_central_subhalos ends the run with InvalidArgument ("more than one
\* central subhalo") instead of returning.
C3_TwoCentralsRejected ==
    [][(ResolverRuns /\ TwoTaggedCentralsAtRoot
          /\ exec_params.last_snapshot_to_consider = sim_params.max_snapshot)
       => (/\ pc' = "failed"
           /\ err'.kind = "InvalidArgument"
           /\ err'.what = "more than one central subhalo")]_vars

\* Scenario B: root H1 (halo 1, hosting SH1 = subhalo 1) at the last snapshot,
\* H0 (halo 2, hosting SH0 = subhalo 2) one snapshot earlier, and SH0 claims a
\* descendant halo id that no halo of the catalogue has
ScenarioB ==
    /\ Len(halos) = 2 /\ Len(subhalos) = 2
    /\ subhalos[1].host_halo = 1 /\ subhalos[2].host_halo = 2
    /\ halos[1].snapshot = sim_params.max_snapshot
    /\ halos[2].snapshot = halos[1].snapshot - 1
    /\ exec_params.last_snapshot_to_consider = halos[1].snapshot
    /\ subhalos[2].has_descendant
    /\ \A h \in DOMAIN halos : halos[h].id # subhalos[2].descendant_halo_id

OnlyRootInForest ==
    /\ halos[2].merger_tree = None
    /\ Len(trees) = 1
    /\ trees[1] = [s \in Snapshots |-> IF s = halos[1].snapshot THEN <<1>> ELSE <<>>]

\* C4 as stated: in Scenario B build_trees raises SubhaloNotFound when
\* skip_missing_descendants is false, and when it is true it completes with H0
\* in no tree and a single tree holding only H1.
C4_ScenarioB_AsStated ==
    (ScenarioB /\ pc \in {"done", "failed"}) =>
        IF ~exec_params.skip_missing_descendants
        THEN pc = "failed" /\ err.kind = "SubhaloNotFound"
        ELSE pc = "done" /\ OnlyRootInForest

\* C4 amended: in Scenario B build_trees never fails, whatever
\* skip_missing_descendants is; it completes with H0 in no tree and a single
\* tree holding only H1.
C4_ScenarioB ==
    ScenarioB =>
        /\ pc # "failed"
        /\ pc = "done" => OnlyRootInForest

\* Scenario B has run to completion with skip_missing_descendants off
C4_Witness ==
    /\ ScenarioB
    /\ pc = "done"
    /\ ~exec_params.skip_missing_descendants
    /\ OnlyRootInForest

\* the Linker is about to process subhalo k of halo h
Processing(h, k) ==
    /\ pc = "linking"
    /\ linker.halo = h
    /\ linker.subhalos # <<>>
    /\ Head(linker.subhalos) = k

\* the halo that subhalo k claims is indexed, but hosts no subhalo with the
\* claimed descendant id
DescendantSubhaloMissing(k) ==
    /\ subhalos[k].has_descendant
    /\ subhalos[k].descendant_halo_id \in halos_by_id
    /\ \A d \in Hosted(subhalos[k].descendant_halo_id) :
          subhalos[d].id # subhalos[k].descendant_id

\* C5: a subhalo SH of halo H whose descendant halo is indexed but lacks the
\* claimed descendant subhalo: without skip_missing_descendants the Linker
\* fails with SubhaloNotFound carrying the claimed subhalo id, whatever
\* warn_on_missing_descendants is; with it the Linker does not fail, removes SH
\* from H, links nothing and goes on with H's next subhalo, and the warn flag
\* decides only whether one warning is logged.
C5_MissingDescendantSubhalo ==
    [][\A h \in DOMAIN halos : \A k \in DOMAIN subhalos :
        (Processing(h, k) /\ DescendantSubhaloMissing(k)) =>
            IF ~exec_params.skip_missing_descendants
            THEN /\ pc' = "failed"
                 /\ err'.kind = "SubhaloNotFound"
                 /\ err'.id = subhalos[k].descendant_id
            ELSE /\ pc' # "failed" /\ err' = NoError
                 /\ halos' = [halos EXCEPT ![h] = remove_subhalo(@, k)]
                 /\ k \notin Hosted(h)'
                 /\ subhalos' = subhalos
                 /\ trees' = trees
                 /\ Tail(linker.subhalos) # <<>> =>
                        /\ linker'.halo = h
                        /\ linker'.subhalos = Tail(linker.subhalos)
                        /\ linker'.halo_linked = linker.halo_linked
                 /\ warnings' = warnings
                        + (IF exec_params.warn_on_missing_descendants THEN 1 ELSE 0)
      ]_vars

\* the Linker has skipped, with a warning, a subhalo whose descendant subhalo
\* is missing and is now at the next subhalo of the same halo
C5_Witness ==
    /\ pc = "linking"
    /\ exec_params.skip_missing_descendants
    /\ warnings = 1
    /\ linker.subhalos # <<>>
    /\ \E k \in DOMAIN subhalos :
          /\ subhalos[k].host_halo = linker.halo
          /\ subhalos[k].has_descendant
          /\ subhalos[k].descendant_halo_id \in DOMAIN halos
          /\ subhalos[k].descendant = None
          /\ k \notin Hosted(linker.halo)

\* C6: every resolved descendant subhalo lies exactly one snapshot after its
\* ascendant, and a claimed descendant subhalo found at any other snapshot
\* makes the Linker fail with InvalidData with no link made for the pair.
C6_DirectParentage ==
    [][/\ \A k \in DOMAIN subhalos :
            subhalos'[k].descendant # None =>
                subhalos'[subhalos'[k].descendant].snapshot = subhalos'[k].snapshot + 1
       /\ \A h \in DOMAIN halos : \A k \in DOMAIN subhalos :
            (/\ Processing(h, k)
             /\ subhalos[k].has_descendant
             /\ subhalos[k].descendant_halo_id \in halos_by_id
             /\ \E d \in Hosted(subhalos[k].descendant_halo_id) :
                   /\ subhalos[d].id = subhalos[k].descendant_id
                   /\ subhalos[d].snapshot # subhalos[k].snapshot + 1)
            => /\ pc' = "failed"
               /\ err'.kind = "InvalidData"
               /\ err'.what = "not a direct descendant"
               /\ subhalos' = subhalos /\ halos' = halos /\ trees' = trees
      ]_vars

\* the Linker has linked one subhalo and then refused an indirect descendant
C6_Witness ==
    /\ pc = "failed"
    /\ err.what = "not a direct descendant"
    /\ \E k \in DOMAIN subhalos : subhalos[k].descendant # None

\* C7: over any sequence of link calls a subhalo's descendant is assigned at
\* most once; a call whose parent subhalo already has a descendant fails with
\* InvalidData and leaves that descendant in place.
C7_SubhaloDescendantOnce ==
    [][/\ \A k \in DOMAIN subhalos :
            subhalos[k].descendant # None =>
                subhalos'[k].descendant = subhalos[k].descendant
       /\ \A p \in DOMAIN subhalos : \A d \in DOMAIN subhalos :
            (subhalos[p].descendant # None /\ LinkCall(p, d)) =>
                /\ err'.kind = "InvalidData"
                /\ err'.what = "subhalo already has a descendant"
                /\ subhalos'[p].descendant = subhalos[p].descendant
      ]_vars

\* link has refused a second descendant for a subhalo that keeps its first
C7_Witness ==
    /\ err.what = "subhalo already has a descendant"
    /\ subhalos[err.id].descendant # None

\* link was called before for this halo pair and went through
LinkedPair(parent_halo, desc_halo) ==
    /\ halos[parent_halo].descendant = desc_halo
    /\ halos[parent_halo].merger_tree # None
    /\ halos[parent_halo].merger_tree = halos[desc_halo].merger_tree
    /\ parent_halo \in halos[desc_halo].ascendants

\* C8: over any sequence of link calls a halo's descendant halo is assigned at
\* most once; link fails with InvalidData when the parent halo already has
\* another descendant halo, while linking an already linked halo pair again
\* through another subhalo succeeds without adding the parent halo to the
\* descendant's ascendant set or to the tree's bucket again.
C8_HaloDescendantOnce ==
    [][/\ \A h \in DOMAIN halos :
            halos[h].descendant # None => halos'[h].descendant = halos[h].descendant
       /\ \A p \in DOMAIN subhalos : \A d \in DOMAIN subhalos :
            LET parent_halo == subhalos[p].host_halo
                desc_halo   == subhalos[d].host_halo
            IN
            /\ (/\ halos[parent_halo].descendant # None
                /\ halos[parent_halo].descendant # desc_halo
                /\ LinkCall(p, d))
               => err'.kind = "InvalidData"
            /\ (/\ subhalos[p].descendant = None
                /\ LinkedPair(parent_halo, desc_halo)
                /\ LinkCall(p, d))
               => /\ err' = NoError
                  /\ subhalos'[p].descendant = d
                  /\ halos'[desc_halo].ascendants = halos[desc_halo].ascendants
                  /\ trees' = trees
      ]_vars

\* a halo pair linked through two subhalos, the parent halo once in its bucket
C8_Witness ==
    /\ err = NoError
    /\ \E h \in DOMAIN halos :
          /\ Cardinality(LinkedSubhalosOf(h)) >= 2
          /\ halos[h].descendant # None
          /\ LinkedPair(h, halos[h].descendant)
          /\ Count(trees[halos[h].merger_tree][halos[h].snapshot], h) = 1

MaxOf(S) == CHOOSE x \in S : \A y \in S : y <= x

\* C9: with ensure_mass_growth on, when ensure_halo_mass_growth has run every
\* halo of the forest that has a descendant is no more massive than it, along
\* chains and for descendants with several ascendants alike; a halo's Mvir is
\* never lowered and changes only to the Mvir of one of its ascendants, so
\* that it ends as the largest of its own and its ascendants' masses.
C9_MassGrowth ==
    [][(pc = "checked" /\ pc' = "grown") =>
        /\ \A h \in DOMAIN halos :
              (InForest(h) /\ halos'[h].descendant # None) =>
                  halos'[h].Mvir <= halos'[halos'[h].descendant].Mvir
        /\ \A d \in DOMAIN halos :
              /\ halos'[d].Mvir >= halos[d].Mvir
              /\ halos'[d].Mvir # halos[d].Mvir =>
                    \E a \in halos[d].ascendants : halos'[d].Mvir = halos'[a].Mvir
              /\ halos'[d].Mvir =
                    MaxOf({halos[d].Mvir} \cup {halos'[a].Mvir : a \in halos[d].ascendants})
      ]_vars

\* Scenario D: a chain over three snapshots whose last halo was raised to the
\* mass of the middle one
C9_Witness ==
    /\ pc = "grown"
    /\ \E h0 \in DOMAIN halos : \E h1 \in DOMAIN halos : \E h2 \in DOMAIN halos :
          /\ halos[h0].descendant = h1
          /\ halos[h1].descendant = h2
          /\ catalogue_Mvir[h1] > catalogue_Mvir[h2]
          /\ halos[h2].Mvir = halos[h1].Mvir
          /\ halos[h2].Mvir > catalogue_Mvir[h2]

\* the halos that some subhalo link joins to halo h
LinkedAscendants(h) ==
    {subhalos[k].host_halo :
        k \in {x \in DOMAIN subhalos :
                 /\ subhalos[x].descendant # None
                 /\ subhalos[subhalos[x].descendant].host_halo = h}}

RECURSIVE MassOf(_)
MassOf(S) ==
    IF S = {} THEN 0
    ELSE LET a == CHOOSE x \in S : TRUE IN halos[a].Mvir + MassOf(S \ {a})

\* C10: after define_accretion_rate_from_dm the central subhalo of every halo
\* of the forest has accreted_mass = max(0, (Mvir - summed Mvir of the
\* ascendant halos) * universal_baryon_fraction), every ascendant halo counted
\* once however many subhalo links join it; so accreted_mass is never negative.
C10_AccretedMass ==
    pc = "done" =>
        \A h \in DOMAIN halos : InForest(h) =>
            LET grown == (halos[h].Mvir - MassOf(LinkedAscendants(h)))
                            * exec_params.universal_baryon_fraction
                c == halos[h].central_subhalo
            IN /\ c # None
               /\ subhalos[c].accreted_mass = IF grown > 0 THEN grown ELSE 0
               /\ subhalos[c].accreted_mass >= 0

\* a finished run with a halo that gained mass over an ascendant joined to it
\* by two subhalo links, and a halo whose accretion was floored at zero
C10_Witness ==
    /\ pc = "done"
    /\ \E h \in DOMAIN halos : \E a \in LinkedAscendants(h) :
          /\ InForest(h)
          /\ Cardinality({k \in LinkedSubhalosOf(a) :
                            subhalos[subhalos[k].descendant].host_halo = h}) >= 2
          /\ subhalos[halos[h].central_subhalo].accreted_mass > 0

\* C11: running define_central_subhalos again on the forest it has resolved
\* changes nothing: every field of every halo (central subhalo, satellite
\* list, position, velocity, concentration, spin, Vvir) and of every subhalo
\* (type, main-progenitor flag, last_snapshot_identified) is as before, and
\* the second run ends without error.
C11_ResolverIdempotent ==
    [][DefineCentralSubhalosAgain =>
        /\ halos' = halos
        /\ subhalos' = subhalos
        /\ trees' = trees
        /\ err' = NoError
        /\ pc' = "done"]_vars

\* the resolver has run twice on a forest where the first run walked a branch
C11_Witness ==
    /\ pc = "done"
    /\ Count(passes, "central") = 2
    /\ \E h \in DOMAIN halos :
          /\ InForest(h)
          /\ halos[h].ascendants # {}
          /\ \E a \in halos[h].ascendants : halos[a].central_subhalo # None

\* the input halos at the root-seeding snapshot
RootHalos == {h \in DOMAIN halos : halos[h].snapshot = exec_params.last_snapshot_to_consider}

\* the id (counted from 0) of the tree at position t of the returned vector
TreeIdAt(t) == t - 1

\* C12: when the roots have been seeded there is exactly one tree per input
\* halo at the root-seeding snapshot and none for any other halo; the tree of
\* such a halo has as id the number of such halos before it in the input, so
\* the ids are 0, 1, 2, ... in input order, and the halo is the only member of
\* its tree.
C12_TreeSeeding ==
    pc = "seeded" =>
        /\ Len(trees) = Cardinality(RootHalos)
        /\ \A h \in RootHalos :
              /\ halos[h].merger_tree \in TreeIds
              /\ TreeIdAt(halos[h].merger_tree) = Cardinality({g \in RootHalos : g < h})
              /\ trees[halos[h].merger_tree] =
                    [s \in Snapshots |-> IF s = halos[h].snapshot THEN <<h>> ELSE <<>>]
        /\ \A h \in DOMAIN halos \ RootHalos :
              /\ halos[h].merger_tree = None
              /\ ~InForest(h)

\* two roots seeded in a catalogue that also has a halo after the roots
C12_Witness ==
    /\ pc = "seeded"
    /\ Len(trees) = 2
    /\ \E h \in DOMAIN halos :
          halos[h].snapshot > exec_params.last_snapshot_to_consider

\* C13: when no input halo lies at the root-seeding snapshot, the seeding
\* step ends build_trees with InvalidData: no halo and no subhalo has been
\* modified, no tree exists, the Linker has built no index and visited
\* nothing, and no further pass runs after the failure.
C13_NoRootFails ==
    [][/\ (pc = "start" /\ RootHalos = {}) =>
            /\ pc' = "failed"
            /\ err'.kind = "InvalidData"
            /\ err'.what = "no halos at snapshot"
            /\ halos' = halos
            /\ subhalos' = subhalos
            /\ trees' = <<>>
            /\ halos_by_id' = {}
            /\ linker' = Idle
            /\ linked_snapshots' = <<>>
            /\ passes' = <<"seed">>
       /\ (pc = "failed" /\ err.what = "no halos at snapshot") => FALSE
      ]_vars

\* the seeding failed on a catalogue that has a descendant claim to resolve
C13_Witness ==
    /\ pc = "failed"
    /\ err.kind = "InvalidData"
    /\ err.what = "no halos at snapshot"
    /\ \E k \in DOMAIN subhalos : subhalos[k].has_descendant

\* the passes of a successful run, in order
ExpectedPasses ==
    <<"seed", "link", "self_contained">>
    \o (IF exec_params.ensure_mass_growth THEN <<"mass_growth">> ELSE <<>>)
    \o <<"central", "accretion">>

IsPrefix(s, t) == Len(s) <= Len(t) /\ s = SubSeq(t, 1, Len(s))

\* C14: the passes begun so far are always an initial part of: root seeding,
\* Linker, self-containment check, mass growth (present exactly when
\* ensure_mass_growth is on), central-subhalo resolution, accretion; a
\* successful run has gone through all of them, each once.  Without
\* ensure_mass_growth no halo's Mvir ever differs from its input value.  The
\* accretion pass starts when every halo of the forest has its central
\* subhalo and, with ensure_mass_growth on, no halo outweighs its descendant,
\* and it leaves the halo masses as the mass-growth pass left them.
C14_PassOrder ==
    [][/\ IsPrefix(passes', ExpectedPasses)
       /\ pc' = "done" => passes' = ExpectedPasses
       /\ ~exec_params.ensure_mass_growth =>
             \A h \in DOMAIN halos : halos'[h].Mvir = catalogue_Mvir[h]
       /\ (pc = "resolved" /\ pc' = "done") =>
             /\ \A h \in DOMAIN halos :
                   /\ InForest(h) => halos[h].central_subhalo # None
                   /\ halos'[h].Mvir = halos[h].Mvir
                   /\ (/\ exec_params.ensure_mass_growth
                       /\ InForest(h)
                       /\ halos[h].descendant # None)
                      => halos[h].Mvir <= halos[halos[h].descendant].Mvir
      ]_vars

\* a successful run with mass growth on that raised a descendant's mass
C14_Witness ==
    /\ pc = "done"
    /\ exec_params.ensure_mass_growth
    /\ passes = <<"seed", "link", "self_contained", "mass_growth", "central", "accretion">>
    /\ \E h \in DOMAIN halos : halos[h].Mvir > catalogue_Mvir[h]

\* Scenario A: root H1 (halo 1, hosting SH1 = subhalo 1) at the last snapshot,
\* H0 (halo 2, hosting SH0 = subhalo 2) one snapshot earlier, and SH0 claims
\* the descendant (H1, SH1)
ScenarioA ==
    /\ Len(halos) = 2 /\ Len(subhalos) = 2
    /\ subhalos[1].host_halo = 1 /\ subhalos[2].host_halo = 2
    /\ halos[1].snapshot = sim_params.max_snapshot
    /\ halos[2].snapshot = halos[1].snapshot - 1
    /\ exec_params.last_snapshot_to_consider = halos[1].snapshot
    /\ ~subhalos[1].has_descendant
    /\ subhalos[2].has_descendant
    /\ subhalos[2].descendant_halo_id = halos[1].id
    /\ subhalos[2].descendant_id = subhalos[1].id

\* C15: in Scenario A build_trees does not fail, and when it has returned
\* there is exactly one tree, whose buckets hold H1 at its snapshot and H0 at
\* the one before and nothing else, SH0.descendant is SH1, H0.descendant is
\* H1, H0 is in H1's ascendant set and H1's central subhalo is SH1.
C15_ScenarioA ==
    ScenarioA =>
        /\ pc # "failed"
        /\ pc = "done" =>
              /\ Len(trees) = 1
              /\ trees[1] = [s \in Snapshots |->
                               IF s = halos[1].snapshot THEN <<1>>
                               ELSE IF s = halos[2].snapshot THEN <<2>>
                               ELSE <<>>]
              /\ halos[1].merger_tree = 1 /\ halos[2].merger_tree = 1
              /\ subhalos[2].descendant = 1
              /\ halos[2].descendant = 1
              /\ 2 \in halos[1].ascendants
              /\ halos[1].central_subhalo = 1

\* Scenario A has run to completion
C15_Witness ==
    /\ ScenarioA
    /\ pc = "done"
    /\ subhalos[2].descendant = 1
    /\ subhalos[1].ascendants = <<2>>

StrictlyDescending(s) == \A i \in 1..(Len(s) - 1) : s[i] > s[i+1]

\* C16: the snapshots the Linker has visited so far are in strictly
\* descending order, the root-seeding snapshot is never among them, and when
\* the Linker has finished every other snapshot that holds halos is.
C16_LinkerSnapshots ==
    /\ StrictlyDescending(linked_snapshots)
    /\ exec_params.last_snapshot_to_consider \notin SeqRange(linked_snapshots)
    /\ pc = "linked" =>
          \A h \in DOMAIN halos :
              halos[h].snapshot # exec_params.last_snapshot_to_consider
                  => halos[h].snapshot \in SeqRange(linked_snapshots)

\* C17: the Linker never ends with link's "descendant has no MergerTree"
\* error, and every halo that a link made by the Linker leads to has a tree.
C17_DescendantHasTree ==
    /\ ~(pc = "failed" /\ err.what = "descendant has no MergerTree")
    /\ pc \in {"linking", "linked"} =>
          \A h \in DOMAIN halos :
              halos[h].descendant # None => halos[halos[h].descendant].merger_tree # None

\* subhalo k claims a descendant halo id that the identity index lacks
DescendantHaloMissing(k) ==
    /\ subhalos[k].has_descendant
    /\ subhalos[k].descendant_halo_id \notin halos_by_id

\* C18: when the subhalo the Linker is at claims a descendant halo id absent
\* from the identity index, the step links and detaches nothing, removes the
\* host halo H from the index and leaves H for good: H is never the halo
\* being processed again, so its later subhalos stay as they are; a halo that
\* is out of the index gains no ascendant, and when the Linker has finished
\* every halo that is out of the index has an empty ascendant set, and every
\* halo that the Linker processed without linking a subhalo of it is out of
\* the index with an empty ascendant set.
C18_AbandonHalo ==
    [][/\ \A h \in DOMAIN halos : \A k \in DOMAIN subhalos :
            (Processing(h, k) /\ DescendantHaloMissing(k)) =>
                /\ pc' # "failed"
                /\ halos' = halos
                /\ subhalos' = subhalos
                /\ trees' = trees
                /\ halos_by_id' = halos_by_id \ {halos[h].id}
                /\ linker'.halo # h
       /\ \A h \in DOMAIN halos :
            (pc = "linking" /\ halos[h].id \notin halos_by_id) =>
                /\ linker.halo # h => linker'.halo # h
                /\ linker.halo # h =>
                      /\ halos'[h].satellite_subhalos = halos[h].satellite_subhalos
                      /\ \A k \in Hosted(h) : subhalos'[k].descendant = subhalos[k].descendant
                /\ halos'[h].ascendants = halos[h].ascendants
       /\ pc' = "linked" =>
            \A h \in DOMAIN halos :
                /\ halos'[h].id \notin halos_by_id' => halos'[h].ascendants = {}
                /\ (/\ halos'[h].snapshot \in SeqRange(linked_snapshots')
                    /\ LinkedSubhalosOf(h)' = {})
                   => /\ halos'[h].id \notin halos_by_id'
                      /\ halos'[h].ascendants = {}
      ]_vars

\* the Linker has finished; it left a halo at a subhalo claiming an unknown
\* halo, and a later subhalo of that halo, which has no descendant flag and
\* would have been detached, is still hosted
C18_Witness ==
    /\ pc = "linked"
    /\ \E h \in DOMAIN halos :
          /\ halos[h].id \notin halos_by_id
          /\ halos[h].ascendants = {}
          /\ \E k \in Hosted(h) : \E x \in Hosted(h) :
                /\ k < x
                /\ subhalos[k].has_descendant
                /\ subhalos[k].descendant_halo_id \notin DOMAIN halos
                /\ ~subhalos[x].has_descendant

\* C19: once define_central_subhalos has completed, for every halo D of the
\* forest whose central subhalo c has an ascendant, c has a main progenitor
\* and that subhalo is the central subhalo of its own host halo, of type
\* CENTRAL and no longer among the host's satellites.
C19_MainBranchCentral ==
    pc \in {"resolved", "done"} =>
        \A D \in DOMAIN halos :
            LET c == halos[D].central_subhalo
            IN (InForest(D) /\ c # None /\ subhalos[c].ascendants # <<>>) =>
                  LET m == main(World, c)
                  IN /\ m # None
                     /\ halos[subhalos[m].host_halo].central_subhalo = m
                     /\ subhalos[m].subhalo_type = CENTRAL
                     /\ ~IsSatellite(halos[subhalos[m].host_halo], m)

\* a resolved forest where the main progenitor of a central subhalo is not
\* the first subhalo of its host, which the snapshot loop would have taken
C19_Witness ==
    /\ pc = "done"
    /\ \E D \in DOMAIN halos :
          /\ InForest(D)
          /\ halos[D].central_subhalo # None
          /\ LET c == halos[D].central_subhalo
                 m == main(World, c)
             IN /\ Len(subhalos[c].ascendants) >= 2
                /\ m # None
                /\ halos[subhalos[m].host_halo].central_subhalo = m
                /\ \E x \in SeqRange(halos[subhalos[m].host_halo].satellite_subhalos) :
                      x < m

\* the subhalos of list asc that carry the main-progenitor flag, before and
\* after a step
Flagged(asc) == {a \in SeqRange(asc) : subhalos[a].main_progenitor}

FlaggedAfter(asc) == {a \in SeqRange(asc) : subhalos'[a].main_progenitor}

\* the first subhalo of list asc among those of maximum Mvir
FirstOfMaxMvir(asc) ==
    asc[CHOOSE i \in 1..Len(asc) :
          /\ \A j \in 1..Len(asc) : subhalos[asc[j]].Mvir <= subhalos[asc[i]].Mvir
          /\ \A j \in 1..(i-1) : subhalos[asc[j]].Mvir # subhalos[asc[i]].Mvir]

\* subhalo c is the central subhalo of a halo of the forest after the step
WalkedFrom(c) ==
    \E D \in DOMAIN halos : InForest(D) /\ halos'[D].central_subhalo = c

\* C20: over a completed run of define_central_subhalos, for every subhalo c
\* with ascendants: when c ends as the central subhalo of a halo of the forest
\* and none of its ascendants carried the main-progenitor flag, exactly one
\* of them carries it afterwards, the first in list order among those of
\* maximum Mvir, and that one has become the central subhalo of its host;
\* in every other case the flags of c's ascendants are as before.  No flag is
\* ever cleared, and c never ends with two flagged ascendants unless it had
\* two in the input.
C20_FallbackMainProgenitor ==
    [][(pc \in {"checked", "grown"} /\ pc' = "resolved") =>
        /\ \A k \in DOMAIN subhalos :
              subhalos[k].main_progenitor => subhalos'[k].main_progenitor
        /\ \A c \in DOMAIN subhalos :
              LET asc == subhalos[c].ascendants
              IN asc # <<>> =>
                  /\ subhalos'[c].ascendants = asc
                  /\ IF WalkedFrom(c) /\ Flagged(asc) = {}
                     THEN /\ FlaggedAfter(asc) = {FirstOfMaxMvir(asc)}
                          /\ halos'[subhalos[FirstOfMaxMvir(asc)].host_halo].central_subhalo
                                = FirstOfMaxMvir(asc)
                     ELSE FlaggedAfter(asc) = Flagged(asc)
                  /\ Cardinality(Flagged(asc)) <= 1 => Cardinality(FlaggedAfter(asc)) <= 1
      ]_vars

\* a resolved forest where the resolver flagged the first of two equally
\* massive ascendants that arrived without a flag and made it a central
C20_Witness ==
    /\ pc = "resolved"
    /\ \E c \in DOMAIN subhalos :
          LET asc == subhalos[c].ascendants
          IN /\ Len(asc) >= 2
             /\ \A a \in SeqRange(asc) : ~catalogue_main_progenitor[a]
             /\ subhalos[asc[1]].Mvir = subhalos[asc[2]].Mvir
             /\ subhalos[asc[1]].Mvir > 1
             /\ subhalos[asc[1]].main_progenitor
             /\ ~subhalos[asc[2]].main_progenitor
             /\ halos[subhalos[asc[1]].host_halo].central_subhalo = asc[1]

\* the halos of the forest at snapshots min_snapshot..s
ForestUpTo(s) ==
    {h \in DOMAIN halos :
        /\ InForest(h)
        /\ halos[h].snapshot >= sim_params.min_snapshot
        /\ halos[h].snapshot <= s}

\* summed accreted_mass of the central subhalos of a set of halos
RECURSIVE AccretedBy(_)
AccretedBy(S) ==
    IF S = {} THEN 0
    ELSE LET h == CHOOSE x \in S : TRUE
         IN subhalos[halos[h].central_subhalo].accreted_mass + AccretedBy(S \ {h})

\* C21: after define_accretion_rate_from_dm, baryon_total_created[s] is, for
\* every snapshot s from min_snapshot to max_snapshot, the summed
\* accreted_mass of the central subhalos of all halos of all trees at
\* snapshots min_snapshot..s; the series never decreases with s and its last
\* entry is the sum over the whole forest.
C21_BaryonTotalCreated ==
    pc = "done" =>
        /\ \A s \in sim_params.min_snapshot..sim_params.max_snapshot :
              baryon_total_created[s] = AccretedBy(ForestUpTo(s))
        /\ \A s \in sim_params.min_snapshot..(sim_params.max_snapshot - 1) :
              baryon_total_created[s] <= baryon_total_created[s + 1]
        /\ baryon_total_created[sim_params.max_snapshot]
              = AccretedBy({h \in DOMAIN halos : InForest(h)})

\* a finished run whose series grows at the last snapshot over a positive
\* entry of the snapshot before, fed by halos of two trees
C21_Witness ==
    /\ pc = "done"
    /\ Len(trees) >= 2
    /\ baryon_total_created[sim_params.max_snapshot - 1] > 0
    /\ baryon_total_created[sim_params.max_snapshot]
          > baryon_total_created[sim_params.max_snapshot - 1]
    /\ \E h \in DOMAIN halos :
          /\ InForest(h)
          /\ halos[h].snapshot = sim_params.max_snapshot - 1
          /\ halos[h].descendant # None

\* the halos whose tree reference is t, and the subhalos they host
OwnHalos(t) == {h \in DOMAIN halos : halos[h].merger_tree = t}

OwnSubhalos(t) == UNION {Hosted(h) : h \in OwnHalos(t)}

HalosWritten == {h \in DOMAIN halos : halos'[h] # halos[h]}

SubhalosWritten == {k \in DOMAIN subhalos : subhalos'[k] # subhalos[k]}

\* every order in which the trees can be taken one after another
TreeOrders ==
    {o \in [TreeIds -> TreeIds] : \A i \in TreeIds : \A j \in TreeIds : o[i] = o[j] => i = j}

\* the state in which the running pass began
StartWorld == [World EXCEPT !.halos = pass_start.halos, !.subhalos = pass_start.subhalos]

\* C22: with one worker per tree and the workers' steps interleaved in every
\* possible way, each step of the worker of tree T in the mass-growth and the
\* central-subhalo pass dereferences and changes only halos whose tree
\* reference is T and subhalos hosted by them; what the workers of two trees
\* have written never overlaps; and a pass that the workers complete leaves
\* the halos and subhalos that processing the trees one after another, in
\* whatever order, leaves (a pass in which a worker fails also fails then).
C22_WorkersIndependent ==
    [][/\ \A t \in DOMAIN workers :
            /\ GrowWorker(t) =>
                  LET touched == GrowTouches(World, Head(workers[t].work))
                  IN /\ touched \subseteq OwnHalos(t)
                     /\ HalosWritten \subseteq touched
                     /\ SubhalosWritten = {}
            /\ ResolveWorker(t) =>
                  LET touched == ResolveTouches(World, Head(workers[t].work))
                  IN /\ touched.halos \subseteq OwnHalos(t)
                     /\ touched.subhalos \subseteq OwnSubhalos(t)
                     /\ HalosWritten \subseteq touched.halos
                     /\ SubhalosWritten \subseteq touched.subhalos
       /\ pc' \in {"growing", "grown", "resolving", "resolved"} =>
            \A t \in DOMAIN workers' : \A u \in DOMAIN workers' :
                t # u =>
                    /\ workers'[t].halos_written \cap workers'[u].halos_written = {}
                    /\ workers'[t].subhalos_written \cap workers'[u].subhalos_written = {}
       /\ (pc = "growing" /\ pc' = "grown") =>
            \A o \in TreeOrders :
                LET w == GrowInOrder(StartWorld, o)
                IN ~Failed(w) /\ halos' = w.halos /\ subhalos' = w.subhalos
       /\ (pc = "growing" /\ pc' = "failed") =>
            \A o \in TreeOrders : Failed(GrowInOrder(StartWorld, o))
       /\ (pc = "resolving" /\ pc' = "resolved") =>
            \A o \in TreeOrders :
                LET w == ResolveInOrder(StartWorld, o)
                IN ~Failed(w) /\ halos' = w.halos /\ subhalos' = w.subhalos
       /\ (pc = "resolving" /\ pc' = "failed") =>
            \A o \in TreeOrders : Failed(ResolveInOrder(StartWorld, o))
      ]_vars

\* both passes completed by two workers that each raised the mass of a halo
\* of their own tree in the mass-growth pass
C22_Witness ==
    /\ pc = "resolved"
    /\ Len(workers) = 2
    /\ \A t \in DOMAIN workers : workers[t].halos_written # {}
    /\ \E h \in DOMAIN halos : \E g \in DOMAIN halos :
          /\ halos[h].merger_tree = 1 /\ halos[g].merger_tree = 2
          /\ halos[h].Mvir > catalogue_Mvir[h]
          /\ halos[g].Mvir > catalogue_Mvir[g]

\* C23: when the Linker has completed without error, every subhalo hosted by
\* a halo that is in a tree below the root snapshot has a resolved descendant
\* subhalo.
C23_HostedSubhalosLinked ==
    pc = "linked" =>
        \A h \in DOMAIN halos :
            (InForest(h) /\ h \notin RootHalos) =>
                \A k \in Hosted(h) : subhalos[k].descendant # None

====
